---- MODULE Spec2Model ----
(***************************************************************************)
(* InkTime simulator page (src/server.py, the script that                   *)
(* build_simulator_html emits): the date selector with its backward        *)
(* lookback, the "reroll same day" handler, and the four-colour            *)
(* Floyd-Steinberg quantizer.                                              *)
(*                                                                         *)
(* Three specifications share the variables:                               *)
(*   Spec       the page: load with SELECTED_IMG, then reroll clicks       *)
(*   SpecPick   pickPhotoWithLookback applied to a drawn target date       *)
(*   SpecDither applyFourColorDither applied to a drawn bitmap             *)
(***************************************************************************)
EXTENDS Integers, Sequences, FiniteSets

VARIABLES
    cfgThreshold,   \* cfg.MEMORY_THRESHOLD: <<>> when unset, <<v>> when set
    sim_rows,       \* sim_rows: the database rows build_simulator_html is given
    PHOTOS,         \* const PHOTOS: the catalog rows the page was built with
    SELECTED_IMG,   \* const SELECTED_IMG: path of the photo opened, 0 when none
    currentDate,    \* let currentDate
    currentPhoto,   \* let currentPhoto
    statusLine,     \* statusLine.textContent
    previewSrc,     \* drawPreview: path whose /sim_render was requested last
    imgLoad,        \* drawPreview: "none" | "pending" | "drawn" | "failed"
    pc,             \* position inside onRerollSameDay
    chosen,         \* onRerollSameDay: let chosen
    tries,          \* onRerollSameDay: let tries
    pickCalls,      \* calls of pickPhotoWithLookback made by the running reroll
    baseDate,       \* SpecPick: argument of pickPhotoWithLookback
    picked,         \* SpecPick: its return value
    pickPc,         \* SpecPick: "ready" | "done"
    w, h,           \* canvas.width, canvas.height
    input,          \* the pixels of the canvas when applyFourColorDither is called
    canvas,         \* the pixels of the canvas, one <<r, g, b, a>> each, row-major
    data,           \* imgData.data, <<>> before getImageData
    err,            \* errR/errG/errB, one <<r, g, b>> per column, scaled by Scale
    nextErr,        \* nextErrR/nextErrG/nextErrB
    px, py,         \* loop variables x, y
    dpc,            \* applyFourColorDither: "start" | "loop" | "done" | "failed"
    resid,          \* er, eg, eb of the pixels the running call has visited
    run,            \* which call of applyFourColorDither: "first" | "same" | "output"
    firstOut,       \* the canvas as the first call left it, <<>> before
    probe,          \* SpecNearest: the arguments r, g, b of nearestColor
    nearest,        \* SpecNearest: its return value, <<>> before the call
    ENABLE_REVIEW_WEBUI,    \* the module constant of that name
    cfgQuantity,    \* cfg.DAILY_PHOTO_QUANTITY: <<>> when unset, <<v>> when set
    request,        \* SpecHttp: the request being answered
    response,       \* SpecHttp: [status, body] of the answer, <<>> before
    effects,        \* SpecHttp: what answering the request has touched
    conv,           \* SpecPair: the two running calls of applyFourColorDither
    heap            \* SpecPair: the Float32Array rows allocated so far

vars == <<cfgThreshold, sim_rows, PHOTOS, SELECTED_IMG, currentDate, currentPhoto,
          statusLine, previewSrc, imgLoad, pc, chosen, tries, pickCalls,
          baseDate, picked, pickPc, w, h, input, canvas, data, err, nextErr, px, py, dpc,
          resid, run, firstOut, probe, nearest,
          ENABLE_REVIEW_WEBUI, cfgQuantity, request, response, effects, conv, heap>>

nearestVars == <<probe, nearest>>
httpVars == <<ENABLE_REVIEW_WEBUI, cfgQuantity, request, response, effects>>
pairVars == <<conv, heap>>
restVars == <<nearestVars, httpVars, pairVars>>

selectorVars == <<cfgThreshold, sim_rows, PHOTOS, SELECTED_IMG, currentDate, currentPhoto,
                  previewSrc, imgLoad, pc, chosen, tries, pickCalls>>
pickVars == <<baseDate, picked, pickPc>>
ditherVars == <<w, h, input, canvas, data, err, nextErr, px, py, dpc,
                resid, run, firstOut>>

----------------------------------------------------------------------------
(* Values *)

\* null / undefined / "" of a date string; a date string "YYYY-MM-DD" is <<y, m, d>>
NoDate == <<>>

\* null of a memory score or of a configured threshold; a value v is <<v>>
NoValue == <<>>

NoPhoto == [path |-> 0, date |-> NoDate, memory |-> NoValue]

\* the null returned by pickPhotoFromDate / pickPhotoWithLookback
NotFound == [photo |-> NoPhoto, dateUsed |-> NoDate, fallbackNoThreshold |-> FALSE]

\* the texts statusLine shows
MsgNone == ""
MsgNoPhotoSpecified == "no photo specified; open one from /review"
MsgOpenFromReview == "open a photo from /review"
MsgNoPhotoInWindow == "no photo on this date or in the 30 days before it"
MsgImageLoadFailed == "image load failed"
MsgCanvasUnreadable == "cannot read pixels from canvas"

----------------------------------------------------------------------------
(* Bounds of the model *)

\* number of catalog rows
MaxPhotos == 2

\* bitmap sizes: width, height and number of pixels
MaxW == 3
MaxH == 2
MaxPixels == 6

\* pixels of the bitmaps to convert: the gray of the reference scenario, white,
\* and a half-transparent orange
InputPixels == { <<128, 128, 128, 255>>, <<255, 255, 255, 255>>, <<200, 90, 10, 128>> }

\* target dates: one whose lookback crosses the leap February, one whose
\* lookback crosses the year boundary
TargetDates == { <<2024, 3, 1>>, <<2024, 1, 5>> }

\* capture dates of catalog rows: for each target the day after it, the day
\* itself, the day before, and the days 29, 30 and 31 before it
PhotoDates ==
    { <<2024, 3, 2>>, <<2024, 3, 1>>, <<2024, 2, 29>>,
      <<2024, 2, 1>>, <<2024, 1, 31>>, <<2024, 1, 30>>,
      <<2024, 1, 5>>, <<2024, 1, 4>>,
      <<2023, 12, 7>>, <<2023, 12, 6>>, <<2023, 12, 5>> }

\* capture dates of the rows of the page specification
PageDates == { <<2024, 3, 1>>, <<2024, 2, 29>> }

\* SELECTED_IMG when it names no row of the catalog
UnknownPath == MaxPhotos + 2

\* memory scores of catalog rows: absent, equal to the default threshold, above it
MemoryValues == { NoValue, <<70>>, <<80>> }

\* cfg.MEMORY_THRESHOLD: unset, 0, 60
ConfigThresholds == { NoValue, <<0>>, <<60>> }

\* The "datetime" of a row's exif_json as the parts of its first token split
\* at ":" and "-": <<>> when exif_json is empty, is not JSON or has no
\* datetime, <<2024, 1>> for "2024:01", <<0, 0, 0>> for "0000:00:00 00:00:00".
NoDatetime == <<>>
TwoPartDatetime == <<2024, 1>>
ZeroDatetime == <<0, 0, 0>>

ExifDatetimes == PhotoDates \cup { NoDatetime, TwoPartDatetime, ZeroDatetime }

PageExifDatetimes == PageDates \cup { NoDatetime, ZeroDatetime }

Catalogs ==
    UNION { [1..n -> [exif : ExifDatetimes, memory : MemoryValues]] : n \in 1..MaxPhotos }

PageCatalogs ==
    UNION { [1..n -> [exif : PageExifDatetimes, memory : MemoryValues]] : n \in 1..MaxPhotos }

\* "" unless the first token of the datetime has three parts or more
extract_date_from_exif(parts) ==
    IF Len(parts) >= 3 THEN <<parts[1], parts[2], parts[3]>> ELSE NoDate

\* the items build_simulator_html emits: path i for row i, a row whose
\* date_str is empty left out
Rows(c) ==
    LET item(i) == [path |-> i, date |-> extract_date_from_exif(c[i].exif),
                    memory |-> c[i].memory]
        Dated(it) == it.date # NoDate
    IN  SelectSeq([i \in 1..Len(c) |-> item(i)], Dated)

----------------------------------------------------------------------------
(* Configuration *)

DefaultThreshold == 70

\* float(getattr(cfg, "MEMORY_THRESHOLD", 70.0) or 70.0)
THRESHOLD ==
    LET v == IF cfgThreshold = NoValue THEN DefaultThreshold ELSE cfgThreshold[1]
    IN  IF v = 0 THEN DefaultThreshold ELSE v

\* the loop visiting two dates more
MAX_LOOKBACK_TwoMore == 30 + 2

MAX_LOOKBACK == 30

----------------------------------------------------------------------------
(* byDate *)

\* (b.memory ?? -1) - (a.memory ?? -1)
MemKey(p) == IF p.memory = NoValue THEN -1 ELSE p.memory[1]

\* p placed after every element that does not sort after it (the sort is stable)
RECURSIVE InsertByMemory(_, _)
InsertByMemory(s, p) ==
    IF s = <<>> THEN <<p>>
    ELSE IF MemKey(Head(s)) >= MemKey(p) THEN <<Head(s)>> \o InsertByMemory(Tail(s), p)
    ELSE <<p>> \o s

RECURSIVE SortByMemory(_)
SortByMemory(s) ==
    IF s = <<>> THEN <<>>
    ELSE InsertByMemory(SortByMemory(SubSeq(s, 1, Len(s) - 1)), s[Len(s)])

HasDate(p) == p.date # NoDate

\* byDate.get(date) || []
byDate(date) ==
    LET OnDate(p) == HasDate(p) /\ p.date = date
    IN  SortByMemory(SelectSeq(PHOTOS, OnDate))

----------------------------------------------------------------------------
(* pickPhotoFromDate *)

\* the filter with >= in place of >
AboveThreshold_OrEqual(p) == p.memory # NoValue /\ p.memory[1] >= THRESHOLD

\* p.memory != null && p.memory > THRESHOLD
AboveThreshold(p) == p.memory # NoValue /\ p.memory[1] > THRESHOLD

\* the flag never set
FallbackFlag_Never(qualifying) == FALSE

\* fallbackNoThreshold: absent on a pick from candidates, true on a pick from arr
FallbackFlag(qualifying) == ~qualifying

\* a date whose records all fail the filter treated as a date without records
pickPhotoFromDate_SkipsUnqualified(date) ==
    LET arr == byDate(date)
        candidates == SelectSeq(arr, AboveThreshold)
    IN  IF Len(candidates) = 0 THEN { NotFound }
        ELSE { [photo |-> candidates[i], dateUsed |-> date,
                fallbackNoThreshold |-> FALSE] : i \in 1..Len(candidates) }

\* the record ranked first by score always taken
pickPhotoFromDate_TopScored(date) ==
    LET arr == byDate(date)
        candidates == SelectSeq(arr, AboveThreshold)
    IN  IF Len(arr) = 0 THEN { NotFound }
        ELSE IF Len(candidates) > 0
        THEN { [photo |-> candidates[1], dateUsed |-> date,
                fallbackNoThreshold |-> FallbackFlag(TRUE)] }
        ELSE { [photo |-> arr[1], dateUsed |-> date,
                fallbackNoThreshold |-> FallbackFlag(FALSE)] }

\* the results Math.random can select
pickPhotoFromDate(date) ==
    LET arr == byDate(date)
        candidates == SelectSeq(arr, AboveThreshold)
    IN  IF Len(arr) = 0 THEN { NotFound }
        ELSE IF Len(candidates) > 0
        THEN { [photo |-> candidates[i], dateUsed |-> date,
                fallbackNoThreshold |-> FallbackFlag(TRUE)] : i \in 1..Len(candidates) }
        ELSE { [photo |-> arr[i], dateUsed |-> date,
                fallbackNoThreshold |-> FallbackFlag(FALSE)] : i \in 1..Len(arr) }

----------------------------------------------------------------------------
(* getPreviousDateStr *)

IsLeap(y) == (y % 4 = 0 /\ y % 100 # 0) \/ y % 400 = 0

DaysInMonth(y, m) ==
    IF m = 2 THEN (IF IsLeap(y) THEN 29 ELSE 28)
    ELSE IF m \in {4, 6, 9, 11} THEN 30 ELSE 31

\* setDate(getDate() + 1): the walk going forward
getPreviousDateStr_NextDay(dateStr) ==
    IF dateStr = NoDate THEN NoDate
    ELSE IF dateStr[3] < DaysInMonth(dateStr[1], dateStr[2])
    THEN <<dateStr[1], dateStr[2], dateStr[3] + 1>>
    ELSE IF dateStr[2] < 12 THEN <<dateStr[1], dateStr[2] + 1, 1>>
    ELSE <<dateStr[1] + 1, 1, 1>>

\* new Date(y, m - 1, d); setDate(getDate() - 1); formatted back. Dates are
\* well-formed four-digit-year strings, for which the unpadded year the code
\* writes is the same string.
getPreviousDateStr(dateStr) ==
    IF dateStr = NoDate THEN NoDate
    ELSE LET y == dateStr[1]
             m == dateStr[2]
             d == dateStr[3]
         IN  IF y = 0 \/ m = 0 \/ d = 0 THEN NoDate
             ELSE IF d > 1 THEN <<y, m, d - 1>>
             ELSE IF m > 1 THEN <<y, m - 1, DaysInMonth(y, m - 1)>>
             ELSE <<y - 1, 12, 31>>

----------------------------------------------------------------------------
(* pickPhotoWithLookback *)

Found(r) == r # NotFound /\ r.photo # NoPhoto

\* the for loop from iteration i with the loop variable date
RECURSIVE LookbackLoop(_, _)
LookbackLoop(date, i) ==
    IF i >= MAX_LOOKBACK THEN { NotFound }
    ELSE LET results == pickPhotoFromDate(date)
             prev == getPreviousDateStr(date)
         IN  IF \E r \in results : Found(r) THEN results
             ELSE IF prev = NoDate THEN { NotFound }
             ELSE LookbackLoop(prev, i + 1)

pickPhotoWithLookback(date) ==
    IF date = NoDate THEN { NotFound } ELSE LookbackLoop(date, 0)

----------------------------------------------------------------------------
(* SpecPick: pickPhotoWithLookback on a drawn index and target date *)

IdleDither ==
    /\ w = 0 /\ h = 0 /\ input = <<>> /\ canvas = <<>> /\ data = <<>>
    /\ err = <<>> /\ nextErr = <<>>
    /\ px = 0 /\ py = 0 /\ dpc = "idle"
    /\ resid = <<>> /\ run = "none" /\ firstOut = <<>>

IdlePick == baseDate = NoDate /\ picked = NotFound /\ pickPc = "idle"

IdleNearest == probe = <<>> /\ nearest = <<>>

IdleHttp ==
    /\ ENABLE_REVIEW_WEBUI = TRUE /\ cfgQuantity = <<>>
    /\ request = <<>> /\ response = <<>> /\ effects = <<>>

IdlePair == conv = <<>> /\ heap = <<>>

IdleRest == IdleNearest /\ IdleHttp /\ IdlePair

IdleSelector ==
    /\ SELECTED_IMG = 0 /\ currentDate = NoDate /\ currentPhoto = NoPhoto
    /\ previewSrc = 0 /\ imgLoad = "none" /\ pc = "idle" /\ chosen = NotFound /\ tries = 0
    /\ pickCalls = 0

InitPick ==
    /\ cfgThreshold \in ConfigThresholds
    /\ sim_rows \in Catalogs
    /\ PHOTOS = Rows(sim_rows)
    /\ baseDate \in TargetDates
    /\ picked = NotFound
    /\ pickPc = "ready"
    /\ statusLine = MsgNone
    /\ IdleSelector
    /\ IdleDither
    /\ IdleRest

PickLookback ==
    /\ pickPc = "ready"
    /\ picked' \in pickPhotoWithLookback(baseDate)
    /\ pickPc' = "done"
    /\ UNCHANGED <<baseDate, statusLine>>
    /\ UNCHANGED selectorVars
    /\ UNCHANGED ditherVars
    /\ UNCHANGED restVars

NextPick == PickLookback

SpecPick == InitPick /\ [][NextPick]_vars

----------------------------------------------------------------------------
(* Spec: the simulator page *)

\* findSelectedPhoto
RECURSIVE FirstWithPath(_, _)
FirstWithPath(s, path) ==
    IF s = <<>> THEN NoPhoto
    ELSE IF Head(s).path = path THEN Head(s)
    ELSE FirstWithPath(Tail(s), path)

findSelectedPhoto == IF SELECTED_IMG = 0 THEN NoPhoto ELSE FirstWithPath(PHOTOS, SELECTED_IMG)

\* while (tries <= 6 && ...)
RerollRetryLimit_OneMore == 6 + 1

\* the bound of the retry loop: while (tries < 6 && ...)
RerollRetryLimit == 6

\* the state after the script has run: initPhoto shown, or the hint to open
\* a photo from /review
Init ==
    /\ cfgThreshold \in ConfigThresholds
    /\ sim_rows \in PageCatalogs
    /\ PHOTOS = Rows(sim_rows)
    /\ SELECTED_IMG \in {0, UnknownPath} \cup (1..Len(sim_rows))
    /\ LET initPhoto == findSelectedPhoto
       IN  IF initPhoto = NoPhoto
           THEN /\ currentDate = NoDate
                /\ currentPhoto = NoPhoto
                /\ statusLine = MsgNoPhotoSpecified
                /\ previewSrc = 0
                /\ imgLoad = "none"
           ELSE /\ currentDate = initPhoto.date
                /\ currentPhoto = initPhoto
                /\ statusLine = MsgNone
                /\ previewSrc = initPhoto.path
                /\ imgLoad = "pending"
    /\ pc = "idle"
    /\ chosen = NotFound
    /\ tries = 0
    /\ pickCalls = 0
    /\ IdlePick
    /\ IdleDither
    /\ IdleRest

\* onRerollSameDay up to the retry loop
RerollClick ==
    /\ pc = "idle"
    /\ IF currentDate = NoDate
       THEN /\ statusLine' = MsgOpenFromReview
            /\ pickCalls' = 0
            /\ UNCHANGED <<pc, chosen, tries>>
       ELSE \E pick \in pickPhotoWithLookback(currentDate) :
                /\ pickCalls' = 1
                /\ IF ~Found(pick)
                   THEN /\ statusLine' = MsgNoPhotoInWindow
                        /\ UNCHANGED <<pc, chosen, tries>>
                   ELSE /\ tries' = 0
                        /\ chosen' = pick
                        /\ pc' = "loop"
                        /\ UNCHANGED statusLine
    /\ UNCHANGED <<cfgThreshold, sim_rows, PHOTOS, SELECTED_IMG, currentDate, currentPhoto,
                   previewSrc, imgLoad>>
    /\ UNCHANGED pickVars
    /\ UNCHANGED ditherVars
    /\ UNCHANGED restVars

\* the condition of the while loop
RetryCondition ==
    /\ tries < RerollRetryLimit
    /\ Found(chosen)
    /\ currentPhoto # NoPhoto
    /\ chosen.photo.path = currentPhoto.path

\* one iteration of the while loop
RerollRetry ==
    /\ pc = "loop"
    /\ RetryCondition
    /\ \E again \in pickPhotoWithLookback(currentDate) :
          /\ pickCalls' = pickCalls + 1
          /\ IF ~Found(again)
             THEN /\ pc' = "break"
                  /\ UNCHANGED <<chosen, tries>>
             ELSE /\ chosen' = again
                  /\ tries' = tries + 1
                  /\ UNCHANGED pc
    /\ UNCHANGED <<cfgThreshold, sim_rows, PHOTOS, SELECTED_IMG, currentDate, currentPhoto,
                   statusLine, previewSrc, imgLoad>>
    /\ UNCHANGED pickVars
    /\ UNCHANGED ditherVars
    /\ UNCHANGED restVars

\* a reroll that found no other record reported as one that found none
RerollInstall_CollisionIsFailure ==
    /\ pc = "break" \/ (pc = "loop" /\ ~RetryCondition)
    /\ IF chosen.photo.path = currentPhoto.path
       THEN /\ statusLine' = MsgNoPhotoInWindow
            /\ UNCHANGED <<currentPhoto, previewSrc, imgLoad>>
       ELSE /\ currentPhoto' = chosen.photo
            /\ statusLine' = MsgNone
            /\ previewSrc' = chosen.photo.path
            /\ imgLoad' = "pending"
    /\ pc' = "idle"
    /\ UNCHANGED <<cfgThreshold, sim_rows, PHOTOS, SELECTED_IMG, currentDate, chosen, tries,
                   pickCalls>>
    /\ UNCHANGED pickVars
    /\ UNCHANGED ditherVars
    /\ UNCHANGED restVars

\* after the loop: currentPhoto = chosen.photo; updateMeta; drawPreview
RerollInstall ==
    /\ pc = "break" \/ (pc = "loop" /\ ~RetryCondition)
    /\ currentPhoto' = chosen.photo
    /\ statusLine' = MsgNone
    /\ previewSrc' = chosen.photo.path
    /\ imgLoad' = "pending"
    /\ pc' = "idle"
    /\ UNCHANGED <<cfgThreshold, sim_rows, PHOTOS, SELECTED_IMG, currentDate, chosen, tries,
                   pickCalls>>
    /\ UNCHANGED pickVars
    /\ UNCHANGED ditherVars
    /\ UNCHANGED restVars

\* img.onload of the image drawPreview requested
ImgOnLoad ==
    /\ pc = "idle"
    /\ imgLoad = "pending"
    /\ imgLoad' = "drawn"
    /\ UNCHANGED <<cfgThreshold, sim_rows, PHOTOS, SELECTED_IMG, currentDate, currentPhoto,
                   statusLine, previewSrc, pc, chosen, tries, pickCalls>>
    /\ UNCHANGED pickVars
    /\ UNCHANGED ditherVars
    /\ UNCHANGED restVars

\* img.onerror of the image drawPreview requested
ImgOnError ==
    /\ pc = "idle"
    /\ imgLoad = "pending"
    /\ imgLoad' = "failed"
    /\ statusLine' = MsgImageLoadFailed
    /\ UNCHANGED <<cfgThreshold, sim_rows, PHOTOS, SELECTED_IMG, currentDate, currentPhoto,
                   previewSrc, pc, chosen, tries, pickCalls>>
    /\ UNCHANGED pickVars
    /\ UNCHANGED ditherVars
    /\ UNCHANGED restVars

Next ==
    \/ RerollClick
    \/ RerollRetry
    \/ RerollInstall
    \/ ImgOnLoad
    \/ ImgOnError

Spec == Init /\ [][Next]_vars

----------------------------------------------------------------------------
(* applyFourColorDither *)

\* the red entry as pure red
palette_PureRed == << <<0, 0, 0>>, <<255, 255, 255>>, <<255, 0, 0>>, <<220, 180, 0>> >>

palette == << <<0, 0, 0>>, <<255, 255, 255>>, <<200, 0, 0>>, <<220, 180, 0>> >>

\* Channel values and errors are held as integers in units of 1/Scale. The
\* error of a pixel is a multiple of 1/16 of its predecessors' errors, so in
\* a bitmap of up to four pixels every value is a multiple of 1/16^3 and is
\* held exactly, here as in the Float32Array of the code; in a larger bitmap
\* a share is rounded to the nearest unit where the code rounds to float32.
Scale == 16 * 16 * 16

\* the upper limit one short
Clamp_To254(v) == IF v < 0 THEN 0 ELSE IF v > 254 * Scale THEN 254 * Scale ELSE v

\* r < 0 ? 0 : (r > 255 ? 255 : r)
Clamp(v) == IF v < 0 THEN 0 ELSE IF v > 255 * Scale THEN 255 * Scale ELSE v

\* the comparison with <= in place of <
DistLess_OrEqual(c, i, j) ==
    LET Term(k) == (palette[j][k] - palette[i][k])
                   * (2 * c[k] - Scale * (palette[i][k] + palette[j][k]))
    IN  Term(1) + Term(2) + Term(3) <= 0

\* dist(c, palette[i]) < dist(c, palette[j]) with dist = dr*dr + dg*dg + db*db
\* and c in units of 1/Scale: the difference of the two sums of squares,
\* (c - pi)^2 - (c - pj)^2 = (pj - pi) * (2c - pi - pj) per channel, times
\* Scale, which stays inside 32-bit integers.
DistLess(c, i, j) ==
    LET Term(k) == (palette[j][k] - palette[i][k])
                   * (2 * c[k] - Scale * (palette[i][k] + palette[j][k]))
    IN  Term(1) + Term(2) + Term(3) < 0

\* the loop of nearestColor from index i; best = 0 stands for bestDist = Infinity
RECURSIVE NearestFrom(_, _, _)
NearestFrom(c, i, best) ==
    IF i > Len(palette) THEN best
    ELSE NearestFrom(c, i + 1, IF best = 0 \/ DistLess(c, i, best) THEN i ELSE best)

\* nearestColor(r, g, b): palette[bestIndex]
nearestColor(c) ==
    LET bestIndex == NearestFrom(c, 1, 0)
    IN  palette[IF bestIndex = 0 THEN 1 ELSE bestIndex]

\* e * (k / 16), to the nearest unit
Share(e, k) == (2 * e * k + 16) \div 32

\* buf[x] += e * (k / 16) on the three channels; column x is 0-based
AddShare(buf, x, e, k) ==
    [buf EXCEPT ![x + 1] = << @[1] + Share(e[1], k),
                              @[2] + Share(e[2], k),
                              @[3] + Share(e[3], k) >>]

\* new Float32Array(w), three channels
ZeroRow(n) == [i \in 1..n |-> <<0, 0, 0>>]

\* r, g, b of pixel idx after adding the error of column x and clamping
Adjusted(idx, x) ==
    << Clamp(data[idx][1] * Scale + err[x + 1][1]),
       Clamp(data[idx][2] * Scale + err[x + 1][2]),
       Clamp(data[idx][3] * Scale + err[x + 1][3]) >>

\* the alpha byte written as opaque
WritePixel_Opaque(p, nc) == <<nc[1], nc[2], nc[3], 255>>

\* data[idx] = nc.r; data[idx + 1] = nc.g; data[idx + 2] = nc.b
WritePixel(p, nc) == <<nc[1], nc[2], nc[3], p[4]>>

\* er, eg, eb
Residual(adj, nc) ==
    << adj[1] - nc[1] * Scale, adj[2] - nc[2] * Scale, adj[3] - nc[3] * Scale >>

\* the right neighbour given the weight of the pixel below
ErrAfterPixel_WeightOfBelow(x, e) ==
    IF x + 1 < w THEN AddShare(err, x + 1, e, 5) ELSE err

\* errR/G/B after the pixel at column x
ErrAfterPixel(x, e) ==
    IF x + 1 < w THEN AddShare(err, x + 1, e, 7) ELSE err

\* the below-left share of the first column put into the last column
NextErrAfterPixel_Wraps(x, y, e) ==
    IF y + 1 < h
    THEN LET a == AddShare(nextErr, IF x > 0 THEN x - 1 ELSE w - 1, e, 3)
             b == AddShare(a, x, e, 5)
         IN  IF x + 1 < w THEN AddShare(b, x + 1, e, 1) ELSE b
    ELSE nextErr

\* nextErrR/G/B after the pixel at (x, y)
NextErrAfterPixel(x, y, e) ==
    IF y + 1 < h
    THEN LET a == IF x > 0 THEN AddShare(nextErr, x - 1, e, 3) ELSE nextErr
             b == AddShare(a, x, e, 5)
         IN  IF x + 1 < w THEN AddShare(b, x + 1, e, 1) ELSE b
    ELSE nextErr

Bitmaps(n) == [1..n -> InputPixels]

InitDither ==
    /\ w \in 1..MaxW
    /\ h \in 1..MaxH
    /\ w * h <= MaxPixels
    /\ input \in Bitmaps(w * h)
    /\ canvas = input
    /\ data = <<>>
    /\ err = <<>>
    /\ nextErr = <<>>
    /\ px = 0
    /\ py = 0
    /\ dpc = "start"
    /\ resid = <<>>
    /\ run = "first"
    /\ firstOut = <<>>
    /\ statusLine = MsgNone
    /\ cfgThreshold = NoValue
    /\ sim_rows = <<>>
    /\ PHOTOS = <<>>
    /\ IdleSelector
    /\ IdlePick
    /\ IdleRest

\* the error rows kept from one call to the next
DitherBegin_KeepsBuffers ==
    /\ dpc = "start"
    /\ data' = canvas
    /\ err' = IF err = <<>> THEN ZeroRow(w) ELSE err
    /\ nextErr' = IF nextErr = <<>> THEN ZeroRow(w) ELSE nextErr
    /\ px' = 0
    /\ py' = 0
    /\ dpc' = "loop"
    /\ resid' = ZeroRow(w * h)
    /\ UNCHANGED <<w, h, input, canvas, statusLine, run, firstOut>>
    /\ UNCHANGED selectorVars
    /\ UNCHANGED pickVars
    /\ UNCHANGED restVars

\* getImageData succeeds; the six error rows are allocated
DitherBegin ==
    /\ dpc = "start"
    /\ data' = canvas
    /\ err' = ZeroRow(w)
    /\ nextErr' = ZeroRow(w)
    /\ px' = 0
    /\ py' = 0
    /\ dpc' = "loop"
    /\ resid' = ZeroRow(w * h)
    /\ UNCHANGED <<w, h, input, canvas, statusLine, run, firstOut>>
    /\ UNCHANGED selectorVars
    /\ UNCHANGED pickVars
    /\ UNCHANGED restVars

\* getImageData throws: the catch block reports it and returns
DitherReadFails ==
    /\ dpc = "start"
    /\ statusLine' = MsgCanvasUnreadable
    /\ dpc' = "failed"
    /\ UNCHANGED <<w, h, input, canvas, data, err, nextErr, px, py,
                   resid, run, firstOut>>
    /\ UNCHANGED selectorVars
    /\ UNCHANGED pickVars
    /\ UNCHANGED restVars

\* the body of the inner loop for pixel (px, py); after the last pixel of a
\* row the row's closing copy, and after the last row putImageData
DitherPixel ==
    /\ dpc = "loop"
    /\ LET idx == py * w + px + 1
           adj == Adjusted(idx, px)
           nc == nearestColor(adj)
           e == Residual(adj, nc)
           newData == [data EXCEPT ![idx] = WritePixel(@, nc)]
           newErr == ErrAfterPixel(px, e)
           newNext == NextErrAfterPixel(px, py, e)
       IN  /\ data' = newData
           /\ resid' = [resid EXCEPT ![idx] = e]
           /\ IF px + 1 < w
              THEN /\ px' = px + 1
                   /\ err' = newErr
                   /\ nextErr' = newNext
                   /\ UNCHANGED <<py, dpc, canvas>>
              ELSE /\ px' = 0
                   /\ py' = py + 1
                   /\ IF py + 1 < h
                      THEN /\ err' = newNext
                           /\ nextErr' = ZeroRow(w)
                           /\ UNCHANGED <<dpc, canvas>>
                      ELSE /\ err' = newErr
                           /\ nextErr' = newNext
                           /\ canvas' = newData
                           /\ dpc' = "done"
    /\ UNCHANGED <<w, h, input, statusLine, run, firstOut>>
    /\ UNCHANGED selectorVars
    /\ UNCHANGED pickVars
    /\ UNCHANGED restVars

\* applyFourColorDither called once more on a canvas drawn with the same pixels
DitherSameInput ==
    /\ dpc = "done"
    /\ run = "first"
    /\ firstOut' = canvas
    /\ canvas' = input
    /\ run' = "same"
    /\ dpc' = "start"
    /\ UNCHANGED <<w, h, input, data, err, nextErr, px, py, resid, statusLine>>
    /\ UNCHANGED selectorVars
    /\ UNCHANGED pickVars
    /\ UNCHANGED restVars

\* applyFourColorDither called once more on the canvas as the first call left it
DitherOutputAgain ==
    /\ dpc = "done"
    /\ run = "first"
    /\ firstOut' = canvas
    /\ input' = canvas
    /\ run' = "output"
    /\ dpc' = "start"
    /\ UNCHANGED <<w, h, canvas, data, err, nextErr, px, py, resid, statusLine>>
    /\ UNCHANGED selectorVars
    /\ UNCHANGED pickVars
    /\ UNCHANGED restVars

NextDither ==
    \/ DitherBegin
    \/ DitherReadFails
    \/ DitherPixel
    \/ DitherSameInput
    \/ DitherOutputAgain

SpecDither == InitDither /\ [][NextDither]_vars

----------------------------------------------------------------------------
(* SpecNearest: nearestColor on a drawn channel triple *)

\* channel values: whole numbers between the palette's, among them 100 (as
\* far from black as from red on the red axis) and 210, 90 (as far from red
\* as from yellow)
ChannelSamples == {0, 90, 100, 128, 210, 255}

\* triples with a fractional channel, in units of 1/Scale: (0, 127.5, 255),
\* as far from black as from white, and one as far from white as from yellow
HalfwayTriples == { <<0, 522240, 1044480>>, <<1044464, 1044464, 467232>> }

ProbeTriples ==
    { <<r * Scale, g * Scale, b * Scale>> : r \in ChannelSamples, g \in ChannelSamples,
                                            b \in ChannelSamples }
    \cup HalfwayTriples

InitNearest ==
    /\ probe \in ProbeTriples
    /\ nearest = <<>>
    /\ statusLine = MsgNone
    /\ cfgThreshold = NoValue
    /\ sim_rows = <<>>
    /\ PHOTOS = <<>>
    /\ IdleSelector
    /\ IdlePick
    /\ IdleDither
    /\ IdleHttp
    /\ IdlePair

\* const nc = nearestColor(r, g, b)
NearestColorCall ==
    /\ nearest = <<>>
    /\ nearest' = nearestColor(probe)
    /\ UNCHANGED <<probe, statusLine, httpVars, pairVars>>
    /\ UNCHANGED selectorVars
    /\ UNCHANGED pickVars
    /\ UNCHANGED ditherVars

NextNearest == NearestColorCall

SpecNearest == InitNearest /\ [][NextNearest]_vars

----------------------------------------------------------------------------
(* SpecHttp: the Flask routes *)

\* A file name is a sequence of pieces of text, a path the sequence of the
\* names from the root, and str(path) the pieces with "/" before each name,
\* so that str.startswith is the prefix relation on sequences of pieces.
IMAGE_DIR == << <<"srv">>, <<"images">> >>

BIN_OUTPUT_DIR == << <<"srv">>, <<"output">> >>

DOWNLOAD_KEY == "k"

DotDot == <<"..">>

\* the largest idx a request for photo_<idx>.bin carries
MaxIdx == 5

IdxText == <<"0", "1", "2", "3", "4", "5", "6", "7", "8", "9">>

\* f"photo_{idx}.bin"
PhotoBin(idx) == <<"photo_", IdxText[idx + 1], ".bin">>

\* the directories and the regular files of the file system
Directories ==
    { <<>>, << <<"srv">> >>, IMAGE_DIR, IMAGE_DIR \o << <<"sub">> >>,
      << <<"srv">>, <<"images", "_other">> >>,
      BIN_OUTPUT_DIR, BIN_OUTPUT_DIR \o << <<"day">> >>,
      << <<"srv">>, <<"output", "_old">> >> }

Files ==
    { IMAGE_DIR \o << <<"a.jpg">> >>,
      IMAGE_DIR \o << <<"sub">>, <<"b.jpg">> >>,
      << <<"srv">>, <<"images", "_other">>, <<"x.jpg">> >>,
      << <<"srv">>, <<"secret.txt">> >>,
      BIN_OUTPUT_DIR \o << PhotoBin(0) >>,
      BIN_OUTPUT_DIR \o << PhotoBin(1) >>,
      BIN_OUTPUT_DIR \o << <<"latest.bin">> >>,
      << <<"srv">>, <<"output", "_old">>, <<"old.bin">> >> }

\* relative paths a request can carry, and one absolute path
Subpaths ==
    { [abs |-> FALSE, names |-> << <<"a.jpg">> >>],
      [abs |-> FALSE, names |-> << <<"nope.jpg">> >>],
      [abs |-> FALSE, names |-> << <<"sub">> >>],
      [abs |-> FALSE, names |-> << <<"sub">>, <<"b.jpg">> >>],
      [abs |-> FALSE, names |-> << <<"sub">>, DotDot, <<"a.jpg">> >>],
      [abs |-> FALSE, names |-> << DotDot, <<"secret.txt">> >>],
      [abs |-> FALSE, names |-> << DotDot, <<"images", "_other">>, <<"x.jpg">> >>],
      [abs |-> TRUE,  names |-> << <<"srv">>, <<"secret.txt">> >>] }

NoSubpath == [abs |-> FALSE, names |-> <<>>]

\* the subpaths of requests to /files/ and /files/<path:subpath>
FileSubpaths ==
    { NoSubpath,
      [abs |-> FALSE, names |-> << <<"latest.bin">> >>],
      [abs |-> FALSE, names |-> << <<"day">> >>],
      [abs |-> FALSE, names |-> << <<"nope.bin">> >>],
      [abs |-> FALSE, names |-> << DotDot, <<"secret.txt">> >>],
      [abs |-> FALSE, names |-> << DotDot, <<"output", "_old">> >>],
      [abs |-> FALSE, names |-> << DotDot, <<"output", "_old">>, <<"old.bin">> >>] }

\* the <key> of a request to a device route
Keys == { DOWNLOAD_KEY, "wrong" }

\* request.args.get("img", ""): "", "/images/" + subpath, "/other/" + subpath
ImgArgs ==
    { [prefix |-> "", rest |-> NoSubpath] }
    \cup { [prefix |-> pre, rest |-> sp] : pre \in {"/images/", "/other/"}, sp \in Subpaths }

NoImg == [prefix |-> "", rest |-> NoSubpath]

Request(route, img, subpath, key, idx) ==
    [route |-> route, img |-> img, subpath |-> subpath, key |-> key, idx |-> idx]

WebuiRoutes == {"/review", "/sim", "/images", "/sim_render", "/files"}

DeviceRoutes == {"/static/photo", "/static/latest", "/static/preview"}

Requests ==
    { Request("/sim_render", a, NoSubpath, "", 0) : a \in ImgArgs }
    \cup { Request("/images", NoImg, sp, "", 0) : sp \in { q \in Subpaths : ~q.abs } }
    \cup { Request("/files", NoImg, sp, "", 0) : sp \in FileSubpaths }
    \cup { Request(r, NoImg, NoSubpath, "", 0) : r \in {"/", "/review", "/sim"} }
    \cup { Request("/static/photo", NoImg, NoSubpath, k, i) : k \in Keys, i \in 0..MaxIdx }
    \cup { Request(r, NoImg, NoSubpath, k, 0) :
             r \in {"/static/latest", "/static/preview"}, k \in Keys }

\* Path.resolve(): ".." removes the name before it, the root has no parent
RECURSIVE ResolveFrom(_, _)
ResolveFrom(done, names) ==
    IF names = <<>> THEN done
    ELSE IF Head(names) = DotDot
    THEN ResolveFrom(IF done = <<>> THEN <<>> ELSE SubSeq(done, 1, Len(done) - 1), Tail(names))
    ELSE ResolveFrom(Append(done, Head(names)), Tail(names))

Resolve(path) == ResolveFrom(<<>>, path)

\* str(path)
RECURSIVE PathStr(_)
PathStr(path) ==
    IF path = <<>> THEN <<>> ELSE <<"/">> \o Head(path) \o PathStr(Tail(path))

\* s.startswith(prefix)
StartsWith(str, prefix) ==
    Len(str) >= Len(prefix) /\ SubSeq(str, 1, Len(prefix)) = prefix

\* _safe_join(base, rel): the path, or ValueError
_safe_join(base, rel) ==
    LET p == Resolve(IF rel.abs THEN rel.names ELSE base \o rel.names)
    IN  IF ~StartsWith(PathStr(p), PathStr(Resolve(base)))
        THEN [raised |-> TRUE, path |-> <<>>]
        ELSE [raised |-> FALSE, path |-> p]

Exists(path) == path \in Files \cup Directories
IsFile(path) == path \in Files

\* nothing touched yet
NoEffects ==
    [fs |-> 0, db |-> 0, meta |-> "none", render |-> 0, dither |-> 0, failed |-> "none",
     served |-> <<>>]

\* a guard that lets every request through
_require_webui_enabled_Never == TRUE

\* _require_webui_enabled(): TRUE when it returns, FALSE when it aborts
_require_webui_enabled == ENABLE_REVIEW_WEBUI

\* int(getattr(cfg, "DAILY_PHOTO_QUANTITY", 5) or 5), raised to 1 when below
DAILY_PHOTO_QUANTITY ==
    LET v == IF cfgQuantity = NoValue THEN 5 ELSE cfgQuantity[1]
        q == IF v = 0 THEN 5 ELSE v
    IN  IF q < 1 THEN 1 ELSE q

\* cfg.DAILY_PHOTO_QUANTITY: unset, 0, negative, 2
ConfigQuantities == { NoValue, <<0>>, <<-2>>, <<2>> }

\* get_photo_meta_by_path: a row with a date, none (the bare meta is used
\* instead), or an sqlite3 error, which leaves the handler
MetaLookups == {"row", "bare", "error"}

Abort(status, eff) == [response |-> [status |-> status, body |-> "none"], effects |-> eff]

\* a failed render_image called once more before giving up
RenderAndSend_RetriesRender(eff, renderOk, ditherOk, saveOk) ==
    IF ~renderOk
    THEN Abort(500, [eff EXCEPT !.render = @ + 2, !.failed = "render"])
    ELSE IF ~ditherOk
    THEN Abort(500, [eff EXCEPT !.render = @ + 1, !.dither = @ + 1, !.failed = "dither"])
    ELSE IF ~saveOk
    THEN Abort(500, [eff EXCEPT !.render = @ + 1, !.dither = @ + 1, !.failed = "save"])
    ELSE [response |-> [status |-> 200, body |-> "png"],
          effects |-> [eff EXCEPT !.render = @ + 1, !.dither = @ + 1]]

\* the try block of sim_render: render_image, apply_four_color_dither, save,
\* send_file; except Exception: abort(500)
RenderAndSend(eff, renderOk, ditherOk, saveOk) ==
    IF ~renderOk
    THEN Abort(500, [eff EXCEPT !.render = @ + 1, !.failed = "render"])
    ELSE IF ~ditherOk
    THEN Abort(500, [eff EXCEPT !.render = @ + 1, !.dither = @ + 1, !.failed = "dither"])
    ELSE IF ~saveOk
    THEN Abort(500, [eff EXCEPT !.render = @ + 1, !.dither = @ + 1, !.failed = "save"])
    ELSE [response |-> [status |-> 200, body |-> "png"],
          effects |-> [eff EXCEPT !.render = @ + 1, !.dither = @ + 1]]

\* _send_static_file(p)
_send_static_file(p, eff) ==
    IF ~Exists(p) \/ ~IsFile(p)
    THEN Abort(404, [eff EXCEPT !.fs = @ + 1])
    ELSE [response |-> [status |-> 200, body |-> "file"],
          effects |-> [eff EXCEPT !.fs = @ + 1, !.served = p]]

\* sim_render() with the outcomes of the lookup, the render, the dithering
\* and the save
sim_render(lookup, renderOk, ditherOk, saveOk) ==
    IF ~_require_webui_enabled THEN Abort(404, NoEffects)
    ELSE IF request.img.prefix # "/images/" THEN Abort(400, NoEffects)
    ELSE LET j == _safe_join(IMAGE_DIR, request.img.rest)
         IN  IF j.raised THEN Abort(400, NoEffects)
             ELSE IF ~Exists(j.path) \/ ~IsFile(j.path)
             THEN Abort(404, [NoEffects EXCEPT !.fs = 1])
             ELSE IF lookup = "error"
             THEN Abort(500, [NoEffects EXCEPT !.fs = 1, !.db = 1, !.failed = "db"])
             ELSE RenderAndSend([NoEffects EXCEPT !.fs = 1, !.db = 1, !.meta = lookup,
                                                  !.served = j.path],
                                renderOk, ditherOk, saveOk)

\* images(subpath)
images ==
    IF ~_require_webui_enabled THEN Abort(404, NoEffects)
    ELSE LET j == _safe_join(IMAGE_DIR, request.subpath)
         IN  IF j.raised THEN Abort(400, NoEffects)
             ELSE _send_static_file(j.path, NoEffects)

\* index()
index ==
    IF ENABLE_REVIEW_WEBUI
    THEN [response |-> [status |-> 302, body |-> "redirect to /review"], effects |-> NoEffects]
    ELSE [response |-> [status |-> 200, body |-> "text"], effects |-> NoEffects]

\* review() with whether load_rows finds rows; the database file exists
review(rowsFound) ==
    IF ~_require_webui_enabled THEN Abort(404, NoEffects)
    ELSE IF ~rowsFound
    THEN [response |-> [status |-> 404, body |-> "text"],
          effects |-> [NoEffects EXCEPT !.db = 1]]
    ELSE [response |-> [status |-> 200, body |-> "html"],
          effects |-> [NoEffects EXCEPT !.db = 1]]

\* sim(); the database file exists
sim ==
    IF ~_require_webui_enabled THEN Abort(404, NoEffects)
    ELSE [response |-> [status |-> 200, body |-> "html"],
          effects |-> [NoEffects EXCEPT !.db = 1]]

\* path.relative_to(base) does not raise
IsRelativeTo(path, base) ==
    Len(path) >= Len(base) /\ SubSeq(path, 1, Len(base)) = base

\* browse(subpath): a file is sent, a directory listed; relative_to raises
\* for a directory that is not below BIN_OUTPUT_DIR
browse ==
    IF ~_require_webui_enabled THEN Abort(404, NoEffects)
    ELSE LET j == _safe_join(BIN_OUTPUT_DIR, request.subpath)
             touched == [NoEffects EXCEPT !.fs = 1]
         IN  IF j.raised THEN Abort(400, NoEffects)
             ELSE IF IsFile(j.path) THEN _send_static_file(j.path, touched)
             ELSE IF ~Exists(j.path) THEN Abort(404, touched)
             ELSE IF ~IsRelativeTo(j.path, BIN_OUTPUT_DIR)
             THEN Abort(500, [touched EXCEPT !.failed = "relative_to"])
             ELSE [response |-> [status |-> 200, body |-> "listing"], effects |-> touched]

\* idx = DAILY_PHOTO_QUANTITY let through
esp_photo_AcceptsIdxEqual ==
    IF request.key # DOWNLOAD_KEY THEN Abort(404, NoEffects)
    ELSE IF request.idx < 0 \/ request.idx > DAILY_PHOTO_QUANTITY THEN Abort(404, NoEffects)
    ELSE _send_static_file(BIN_OUTPUT_DIR \o << PhotoBin(request.idx) >>, NoEffects)

\* esp_photo(key, idx)
esp_photo ==
    IF request.key # DOWNLOAD_KEY THEN Abort(404, NoEffects)
    ELSE IF request.idx < 0 \/ request.idx >= DAILY_PHOTO_QUANTITY THEN Abort(404, NoEffects)
    ELSE _send_static_file(BIN_OUTPUT_DIR \o << PhotoBin(request.idx) >>, NoEffects)

\* esp_latest(key)
esp_latest ==
    IF request.key # DOWNLOAD_KEY THEN Abort(404, NoEffects)
    ELSE _send_static_file(BIN_OUTPUT_DIR \o << <<"latest.bin">> >>, NoEffects)

\* esp_preview(key)
esp_preview ==
    IF request.key # DOWNLOAD_KEY THEN Abort(404, NoEffects)
    ELSE _send_static_file(BIN_OUTPUT_DIR \o << <<"preview.png">> >>, NoEffects)

\* cfg.MEMORY_THRESHOLD = float("inf")
NonFinite == <<"inf">>

InitHttp ==
    /\ ENABLE_REVIEW_WEBUI \in BOOLEAN
    /\ cfgQuantity \in ConfigQuantities
    /\ cfgThreshold \in { NoValue, NonFinite }
    /\ request \in Requests
    /\ response = <<>>
    /\ effects = NoEffects
    /\ statusLine = MsgNone
    /\ sim_rows = <<>>
    /\ PHOTOS = <<>>
    /\ IdleSelector
    /\ IdlePick
    /\ IdleDither
    /\ IdleNearest
    /\ IdlePair

HttpUnchanged ==
    /\ UNCHANGED <<ENABLE_REVIEW_WEBUI, cfgQuantity, statusLine, nearestVars, pairVars>>
    /\ UNCHANGED selectorVars
    /\ UNCHANGED pickVars
    /\ UNCHANGED ditherVars

\* GET /sim_render
SimRender ==
    /\ response = <<>>
    /\ request.route = "/sim_render"
    /\ \E lookup \in MetaLookups, renderOk \in BOOLEAN, ditherOk \in BOOLEAN,
          saveOk \in BOOLEAN :
          LET result == sim_render(lookup, renderOk, ditherOk, saveOk)
          IN  /\ response' = result.response
              /\ effects' = result.effects
    /\ UNCHANGED request
    /\ HttpUnchanged

\* GET /images/<path:subpath>
Images ==
    /\ response = <<>>
    /\ request.route = "/images"
    /\ response' = images.response
    /\ effects' = images.effects
    /\ UNCHANGED request
    /\ HttpUnchanged

\* GET /
Index ==
    /\ response = <<>>
    /\ request.route = "/"
    /\ response' = index.response
    /\ effects' = index.effects
    /\ UNCHANGED request
    /\ HttpUnchanged

\* GET /review
Review ==
    \E rowsFound \in BOOLEAN :
        /\ response = <<>>
        /\ request.route = "/review"
        /\ response' = review(rowsFound).response
        /\ effects' = review(rowsFound).effects
        /\ UNCHANGED request
        /\ HttpUnchanged

\* GET /sim
Sim ==
    /\ response = <<>>
    /\ request.route = "/sim"
    /\ response' = sim.response
    /\ effects' = sim.effects
    /\ UNCHANGED request
    /\ HttpUnchanged

\* GET /files/ and /files/<path:subpath>
Browse ==
    /\ response = <<>>
    /\ request.route = "/files"
    /\ response' = browse.response
    /\ effects' = browse.effects
    /\ UNCHANGED request
    /\ HttpUnchanged

\* GET /static/inktime/<key>/photo_<int:idx>.bin
EspPhoto ==
    /\ response = <<>>
    /\ request.route = "/static/photo"
    /\ response' = esp_photo.response
    /\ effects' = esp_photo.effects
    /\ UNCHANGED request
    /\ HttpUnchanged

\* GET /static/inktime/<key>/latest.bin
EspLatest ==
    /\ response = <<>>
    /\ request.route = "/static/latest"
    /\ response' = esp_latest.response
    /\ effects' = esp_latest.effects
    /\ UNCHANGED request
    /\ HttpUnchanged

\* GET /static/inktime/<key>/preview.png
EspPreview ==
    /\ response = <<>>
    /\ request.route = "/static/preview"
    /\ response' = esp_preview.response
    /\ effects' = esp_preview.effects
    /\ UNCHANGED request
    /\ HttpUnchanged

NextHttp ==
    \/ SimRender
    \/ Images
    \/ Index
    \/ Review
    \/ Sim
    \/ Browse
    \/ EspPhoto
    \/ EspLatest
    \/ EspPreview

SpecHttp == InitHttp /\ [][NextHttp]_vars

----------------------------------------------------------------------------
(* SpecPair: two calls of applyFourColorDither taking their steps in turn *)

MaxPairW == 2
MaxPairH == 2
MaxPairPixels == 4

PairPixels == { <<128, 128, 128, 255>>, <<200, 90, 10, 128>> }

\* the rows every call shares: allocated once, zeroed by each call
NewRows_Global(hp, cw) ==
    IF hp = <<>>
    THEN [heap |-> <<[err |-> ZeroRow(cw), nextErr |-> ZeroRow(cw)]>>, at |-> 1]
    ELSE [heap |-> [hp EXCEPT ![1] = [err |-> ZeroRow(cw), nextErr |-> ZeroRow(cw)]], at |-> 1]

\* const errR = new Float32Array(w) ... const nextErrB = new Float32Array(w)
NewRows(hp, cw) ==
    [heap |-> Append(hp, [err |-> ZeroRow(cw), nextErr |-> ZeroRow(cw)]), at |-> Len(hp) + 1]

\* The body of the inner loop for pixel (st.x, st.y) of a cw x ch bitmap, with
\* the row's closing copy after the last pixel of a row; st holds the data,
\* the two error rows and the loop variables of one call.
PixelStep(cw, ch, st) ==
    LET x == st.x
        y == st.y
        idx == y * cw + x + 1
        adj == << Clamp(st.data[idx][1] * Scale + st.err[x + 1][1]),
                  Clamp(st.data[idx][2] * Scale + st.err[x + 1][2]),
                  Clamp(st.data[idx][3] * Scale + st.err[x + 1][3]) >>
        nc == nearestColor(adj)
        e == Residual(adj, nc)
        newData == [st.data EXCEPT ![idx] = WritePixel(@, nc)]
        newErr == IF x + 1 < cw THEN AddShare(st.err, x + 1, e, 7) ELSE st.err
        newNext ==
            IF y + 1 < ch
            THEN LET a == IF x > 0 THEN AddShare(st.nextErr, x - 1, e, 3) ELSE st.nextErr
                     b == AddShare(a, x, e, 5)
                 IN  IF x + 1 < cw THEN AddShare(b, x + 1, e, 1) ELSE b
            ELSE st.nextErr
    IN  IF x + 1 < cw
        THEN [data |-> newData, err |-> newErr, nextErr |-> newNext,
              x |-> x + 1, y |-> y, pc |-> "loop"]
        ELSE IF y + 1 < ch
        THEN [data |-> newData, err |-> newNext, nextErr |-> ZeroRow(cw),
              x |-> 0, y |-> y + 1, pc |-> "loop"]
        ELSE [data |-> newData, err |-> newErr, nextErr |-> newNext,
              x |-> 0, y |-> y + 1, pc |-> "done"]

\* what call i works on: its own data and loop variables, and the rows it
\* holds references to
CallState(i) ==
    [data |-> conv[i].data, err |-> heap[conv[i].rows].err,
     nextErr |-> heap[conv[i].rows].nextErr,
     x |-> conv[i].x, y |-> conv[i].y, pc |-> conv[i].pc]

\* both calls read the one canvas of the page, so the two bitmaps have its size
InitPair ==
    /\ \E cw \in 1..MaxPairW, ch \in 1..MaxPairH :
          /\ cw * ch <= MaxPairPixels
          /\ \E b1 \in [1..(cw * ch) -> PairPixels], b2 \in [1..(cw * ch) -> PairPixels] :
                conv = [i \in 1..2 |->
                          [w |-> cw, h |-> ch, input |-> IF i = 1 THEN b1 ELSE b2,
                           data |-> <<>>, rows |-> 0, x |-> 0, y |-> 0, pc |-> "start"]]
    /\ heap = <<>>
    /\ statusLine = MsgNone
    /\ cfgThreshold = NoValue
    /\ sim_rows = <<>>
    /\ PHOTOS = <<>>
    /\ IdleSelector
    /\ IdlePick
    /\ IdleDither
    /\ IdleNearest
    /\ IdleHttp

PairUnchanged ==
    /\ UNCHANGED <<statusLine, nearestVars, httpVars>>
    /\ UNCHANGED selectorVars
    /\ UNCHANGED pickVars
    /\ UNCHANGED ditherVars

\* call i reads the pixels and allocates its rows
PairBegin(i) ==
    /\ conv[i].pc = "start"
    /\ LET new == NewRows(heap, conv[i].w)
       IN  /\ heap' = new.heap
           /\ conv' = [conv EXCEPT ![i].data = conv[i].input, ![i].rows = new.at,
                                   ![i].x = 0, ![i].y = 0, ![i].pc = "loop"]
    /\ PairUnchanged

\* call i handles its next pixel
PairPixel(i) ==
    /\ conv[i].pc = "loop"
    /\ LET st == PixelStep(conv[i].w, conv[i].h, CallState(i))
       IN  /\ heap' = [heap EXCEPT ![conv[i].rows] = [err |-> st.err, nextErr |-> st.nextErr]]
           /\ conv' = [conv EXCEPT ![i].data = st.data, ![i].x = st.x, ![i].y = st.y,
                                   ![i].pc = st.pc]
    /\ PairUnchanged

NextPair == \E i \in 1..2 : PairBegin(i) \/ PairPixel(i)

SpecPair == InitPair /\ [][NextPair]_vars

----------------------------------------------------------------------------
(* Calendar measure used to state the selector's properties: the number of  *)
(* days from 1970-01-01 to a date, computed without getPreviousDateStr.    *)

DayNumber(date) ==
    LET y == IF date[2] <= 2 THEN date[1] - 1 ELSE date[1]
        era == y \div 400
        yoe == y - era * 400
        mp == (date[2] + 9) % 12
        doy == (153 * mp + 2) \div 5 + date[3] - 1
        doe == yoe * 365 + yoe \div 4 - yoe \div 100 + doy
    IN  era * 146097 + doe - 719468

\* days from date back to the target (negative when date is later)
DaysBefore(date, target) == DayNumber(target) - DayNumber(date)

CatalogPhotos == { PHOTOS[i] : i \in 1..Len(PHOTOS) }

PhotosOn(date) == { p \in CatalogPhotos : p.date = date }

\* the catalog rows dated from `days` days before the target up to the target
PhotosWithin(target, days) ==
    { p \in CatalogPhotos : DaysBefore(p.date, target) \in 0..days }

ScoreAbove(p, t) == p.memory # NoValue /\ p.memory[1] > t

PickDone == pickPc = "done"

----------------------------------------------------------------------------
(* Selector properties, checked under SpecPick *)

\* C1: whenever the index holds a record on some date in
\* [targetDate - 30, targetDate], pickPhotoWithLookback(targetDate) does not
\* return null.
C1_NeverNullWithin30Days ==
    (PickDone /\ PhotosWithin(baseDate, 30) # {}) => Found(picked)

\* C2: whenever the index holds no record on any date in
\* [targetDate - 30, targetDate], pickPhotoWithLookback(targetDate) returns
\* null, also when records exist on earlier dates.
C2_NullWhenWindowEmpty ==
    (PickDone /\ PhotosWithin(baseDate, 30) = {}) => picked = NotFound

C2_Witness ==
    /\ PickDone
    /\ PhotosWithin(baseDate, 30) = {}
    /\ \E p \in CatalogPhotos : DaysBefore(p.date, baseDate) > 30
    /\ picked = NotFound

\* C3: a returned record comes with a dateUsed that is not later than the
\* target and at most 30 days before it, and the record's capture date is
\* dateUsed.
C3_DateUsedInWindow ==
    (PickDone /\ Found(picked)) =>
        /\ picked.dateUsed # NoDate
        /\ DaysBefore(picked.dateUsed, baseDate) \in 0..30
        /\ picked.photo.date = picked.dateUsed
        /\ picked.photo \in CatalogPhotos

C3_Witness ==
    /\ PickDone
    /\ Found(picked)
    /\ DaysBefore(picked.dateUsed, baseDate) = 29
    /\ picked.photo.date = picked.dateUsed

\* C4: when some record indexed under dateUsed has a memory score strictly
\* above the threshold, the returned record has a memory score strictly
\* above the threshold.
C4_QualifyingPreferred ==
    (PickDone /\ Found(picked)
        /\ \E p \in PhotosOn(picked.dateUsed) : ScoreAbove(p, THRESHOLD))
    => ScoreAbove(picked.photo, THRESHOLD)

C4_Witness ==
    /\ PickDone
    /\ Found(picked)
    /\ ScoreAbove(picked.photo, THRESHOLD)
    /\ \E p \in PhotosOn(picked.dateUsed) : ~ScoreAbove(p, THRESHOLD)

\* C5: the walk goes back only over dates without records: a record is
\* returned exactly when one of the MAX_LOOKBACK dates visited holds one, and
\* dateUsed is then the latest of them, also when none of its records is
\* above the threshold and an earlier visited date has one that is.
C5_StopsAtLatestDateWithRecords ==
    PickDone =>
        /\ Found(picked) <=> PhotosWithin(baseDate, MAX_LOOKBACK - 1) # {}
        /\ Found(picked) =>
              /\ PhotosOn(picked.dateUsed) # {}
              /\ picked.photo \in PhotosOn(picked.dateUsed)
              /\ \A p \in PhotosWithin(baseDate, MAX_LOOKBACK - 1) :
                    DayNumber(p.date) <= DayNumber(picked.dateUsed)

C5_Witness ==
    /\ PickDone
    /\ Found(picked)
    /\ \A p \in PhotosOn(picked.dateUsed) : ~ScoreAbove(p, THRESHOLD)
    /\ \E p \in PhotosWithin(baseDate, MAX_LOOKBACK - 1) :
          /\ DayNumber(p.date) < DayNumber(picked.dateUsed)
          /\ ScoreAbove(p, THRESHOLD)

\* C6: the threshold-fallback flag of a result is set exactly when no record
\* indexed under dateUsed has a memory score strictly above the threshold,
\* whether or not the walk went back from the target.
C6_FallbackFlagIffNoneQualifies ==
    (PickDone /\ Found(picked)) =>
        (picked.fallbackNoThreshold <=>
            \A p \in PhotosOn(picked.dateUsed) : ~ScoreAbove(p, THRESHOLD))

C6_Witness ==
    /\ PickDone
    /\ Found(picked)
    /\ picked.fallbackNoThreshold
    /\ picked.dateUsed # baseDate

\* the results a pick for the target date can give
PossibleResults == { q \in pickPhotoWithLookback(baseDate) : Found(q) }

Qualifying(date) == { p \in PhotosOn(date) : ScoreAbove(p, THRESHOLD) }

\* C16: the records a pick can return for the date it settles on are exactly
\* the records of that date scored above the threshold when there are any,
\* the lowest scored of them included, and all records of that date when
\* there are none.
C16_PossibleResultsAreQualifyingSet ==
    /\ pickPc = "ready" =>
          LET results == PossibleResults
              photos == { r.photo : r \in results }
              dates == { r.dateUsed : r \in results }
          IN  /\ Cardinality(dates) <= 1
              /\ \A d \in dates :
                    photos = IF Qualifying(d) # {} THEN Qualifying(d) ELSE PhotosOn(d)
    /\ (PickDone /\ Found(picked)) =>
          picked.photo \in IF Qualifying(picked.dateUsed) # {}
                           THEN Qualifying(picked.dateUsed)
                           ELSE PhotosOn(picked.dateUsed)

\* the lower scored of two qualifying records has been returned
C16_Witness ==
    /\ PickDone
    /\ Found(picked)
    /\ picked.photo \in Qualifying(picked.dateUsed)
    /\ \E p \in Qualifying(picked.dateUsed) : p.memory[1] > picked.photo.memory[1]

----------------------------------------------------------------------------
(* Reroll properties, checked under Spec *)

\* the parts are year, month and day of a calendar date
IsCalendarDate(parts) ==
    /\ Len(parts) = 3
    /\ parts[1] >= 1
    /\ parts[2] \in 1..12
    /\ parts[3] \in 1..DaysInMonth(parts[1], parts[2])

\* the rows of sim_rows whose EXIF datetime is absent or is not a date
UndatedRows == { i \in 1..Len(sim_rows) : ~IsCalendarDate(sim_rows[i].exif) }

\* the paths byDate holds under some date
IndexedPaths == { PHOTOS[j].path : j \in { k \in 1..Len(PHOTOS) : HasDate(PHOTOS[k]) } }

\* C17: a row whose EXIF datetime is absent or is not a date is in no entry
\* of the date index and is never the record a reroll's pick returns.
C17_UndatedNeverIndexedOrReturned ==
    \A i \in UndatedRows :
        /\ i \notin IndexedPaths
        /\ Found(chosen) => chosen.photo.path # i


\* C7 as stated: one reroll calls pickPhotoWithLookback at most 6 times.
C7_AtMostSixPicks == pickCalls <= 6

\* C7 as the code has it: one reroll calls pickPhotoWithLookback at most 7
\* times, the first pick plus at most 6 retries, and a retry is made only
\* while the latest pick is the current record.
C7_AtMostSevenPicks ==
    /\ [](pickCalls <= 7 /\ (pc = "loop" => pickCalls = tries + 1))
    /\ [][ (pc = "loop" /\ pickCalls' > pickCalls) =>
              /\ pickCalls' = pickCalls + 1
              /\ Found(chosen)
              /\ chosen.photo.path = currentPhoto.path ]_vars

C7_Witness ==
    /\ pc = "loop"
    /\ pickCalls = 7
    /\ chosen.photo.path = currentPhoto.path

\* C8: when every pick of a reroll returned the current record, the reroll
\* ends as any other: the final pick becomes the current record and is drawn
\* again, and the status line shows no message.
C8_CollidingRerollCompletes ==
    [][ (pc = "loop" /\ pc' = "idle" /\ chosen.photo.path = currentPhoto.path) =>
            /\ Found(chosen)
            /\ currentPhoto' = chosen.photo
            /\ previewSrc' = chosen.photo.path
            /\ imgLoad' = "pending"
            /\ statusLine' = MsgNone ]_vars

C8_Witness ==
    /\ pc = "idle"
    /\ pickCalls = 7
    /\ tries = 6
    /\ currentPhoto = chosen.photo
    /\ previewSrc = currentPhoto.path
    /\ imgLoad = "pending"
    /\ statusLine = MsgNone

----------------------------------------------------------------------------
(* Quantizer properties, checked under SpecDither *)

Rgb(p) == <<p[1], p[2], p[3]>>

Black == <<0, 0, 0>>
White == <<255, 255, 255>>
Red == <<200, 0, 0>>
Yellow == <<220, 180, 0>>

Gray == <<128, 128, 128>>

DitherDone == dpc = "done"

AllGray2x2 ==
    /\ w = 2
    /\ h = 2
    /\ \A i \in 1..4 : Rgb(input[i]) = Gray

\* C9: after applyFourColorDither every pixel of the bitmap is black
\* (0,0,0), white (255,255,255), red (200,0,0) or yellow (220,180,0).
C9_EveryPixelInPalette ==
    DitherDone =>
        /\ Len(canvas) = w * h
        /\ \A i \in 1..Len(canvas) : Rgb(canvas[i]) \in {Black, White, Red, Yellow}

C9_Witness ==
    /\ DitherDone
    /\ w = 2
    /\ h = 2
    /\ \E i \in 1..4 : Rgb(input[i]) \notin {Black, White, Red, Yellow}
    /\ \E i \in 1..4 : Rgb(canvas[i]) = Red
    /\ \E i \in 1..4 : Rgb(canvas[i]) = Yellow

\* C10 as stated: the 2x2 bitmap of gray (128,128,128) pixels comes out with
\* black and white pixels only.
C10_GrayGivesBlackWhiteOnly ==
    (DitherDone /\ AllGray2x2) =>
        \A i \in 1..4 : Rgb(canvas[i]) \in {Black, White}

\* C10 as the code has it: the 2x2 bitmap of gray (128,128,128) pixels comes
\* out in one fixed pattern, which holds a yellow pixel: yellow, black in the
\* first row and white, black in the second.
C10_GrayFixedPattern ==
    (DitherDone /\ AllGray2x2) =>
        /\ Rgb(canvas[1]) = Yellow
        /\ Rgb(canvas[2]) = Black
        /\ Rgb(canvas[3]) = White
        /\ Rgb(canvas[4]) = Black

C10_Witness ==
    /\ DitherDone
    /\ AllGray2x2
    /\ Rgb(canvas[1]) = Yellow

PaletteColors == {Black, White, Red, Yellow}

AllZero(row) == \A i \in 1..Len(row) : row[i] = <<0, 0, 0>>

\* C11: a bitmap whose pixels are all palette colours comes out unchanged,
\* with every accumulated error zero throughout, so that converting the
\* output of a conversion once more gives that output again.
C11_PaletteBitmapUnchanged ==
    /\ (dpc \in {"loop", "done"} /\ \A i \in 1..Len(input) : Rgb(input[i]) \in PaletteColors) =>
          /\ data = input
          /\ AllZero(err)
          /\ AllZero(nextErr)
          /\ AllZero(resid)
          /\ DitherDone => canvas = input
    /\ (DitherDone /\ run = "output") => canvas = firstOut

C11_Witness ==
    /\ DitherDone
    /\ run = "output"
    /\ canvas = firstOut
    /\ \E i \in 1..Len(canvas) : Rgb(canvas[i]) = Red
    /\ \E i \in 1..Len(canvas) : Rgb(canvas[i]) = Yellow
    /\ \E i \in 1..Len(canvas) : Rgb(canvas[i]) = Black

\* C12: a second conversion of a bitmap with the same pixels gives the same
\* output pixels as the first; nothing the first conversion left behind
\* reaches the second.
C12_SameInputSameOutput ==
    (DitherDone /\ run = "same") => canvas = firstOut

C12_Witness ==
    /\ DitherDone
    /\ run = "same"
    /\ canvas = firstOut
    /\ canvas # input
    /\ w = 3
    /\ h = 2

\* position of pixel (x, y) in the bitmap
PixelIndex(x, y) == y * w + x + 1

\* delta is e * (k / 16) on each channel, to the nearest unit
IsShare(delta, e, k) ==
    \A ch \in 1..3 : 16 * delta[ch] - k * e[ch] \in -8..8

Minus(a, b) == <<a[1] - b[1], a[2] - b[2], a[3] - b[3]>>

\* the weight with which pixel (x, y) feeds column c of the row below
WeightBelow(x, y, c) ==
    IF y + 1 >= h THEN 0
    ELSE IF c = x - 1 THEN 3
    ELSE IF c = x THEN 5
    ELSE IF c = x + 1 THEN 1
    ELSE 0

\* the weight with which pixel (x, y) feeds column c of its own row
WeightRight(x, c) == IF c = x + 1 THEN 7 ELSE 0

\* what the step for pixel (px, py) adds to the two error rows
DiffusesByWeights ==
    LET e == resid'[PixelIndex(px, py)]
    IN  IF px + 1 < w
        THEN \A c \in 0..(w - 1) :
                /\ IsShare(Minus(err'[c + 1], err[c + 1]), e, WeightRight(px, c))
                /\ IsShare(Minus(nextErr'[c + 1], nextErr[c + 1]), e, WeightBelow(px, py, c))
        ELSE IF py + 1 < h
        THEN /\ AllZero(nextErr')
             /\ \A c \in 0..(w - 1) :
                   IsShare(Minus(err'[c + 1], nextErr[c + 1]), e, WeightBelow(px, py, c))
        ELSE TRUE

\* sixteen times the error the visited neighbours of (x, y) have sent to it
SentTo(x, y) ==
    LET From(nx, ny, k) ==
            IF nx \in 0..(w - 1) /\ ny \in 0..(h - 1)
            THEN << k * resid[PixelIndex(nx, ny)][1],
                    k * resid[PixelIndex(nx, ny)][2],
                    k * resid[PixelIndex(nx, ny)][3] >>
            ELSE <<0, 0, 0>>
        a == From(x - 1, y, 7)
        b == From(x + 1, y - 1, 3)
        c == From(x, y - 1, 5)
        d == From(x - 1, y - 1, 1)
    IN  << a[1] + b[1] + c[1] + d[1], a[2] + b[2] + c[2] + d[2], a[3] + b[3] + c[3] + d[3] >>

\* C18: the residual of pixel (x, y) goes with 7/16 to (x+1, y), 3/16 to
\* (x-1, y+1), 5/16 to (x, y+1) and 1/16 to (x+1, y+1) and nowhere else, a
\* share whose target is outside the bitmap being dropped; the error applied
\* to a pixel is the sum of what its visited neighbours sent, the rows being
\* exchanged and the next row zeroed at each row end.
C18_ResidualGoesToFourNeighbours ==
    /\ [][ dpc = "loop" => DiffusesByWeights ]_vars
    /\ [](dpc = "loop" =>
            \A ch \in 1..3 :
                16 * err[px + 1][ch] - SentTo(px, py)[ch] \in -32..32)

\* an interior pixel, (1, 0) of a 3x2 bitmap, has just handed on its residual
C18_Witness ==
    /\ dpc = "loop"
    /\ w = 3
    /\ h = 2
    /\ px = 2
    /\ py = 0
    /\ resid[2] # <<0, 0, 0>>
    /\ IsShare(err[3], resid[2], 7)
    /\ IsShare(Minus(nextErr[1], <<0, 0, 0>>), <<3 * resid[2][1] + 5 * resid[1][1],
                                                  3 * resid[2][2] + 5 * resid[1][2],
                                                  3 * resid[2][3] + 5 * resid[1][3]>>, 1)
    /\ IsShare(nextErr[3], resid[2], 1)

\* C19: the conversion leaves the alpha value of every pixel and the width
\* and height of the bitmap as they were.
C19_AlphaAndSizeKept ==
    /\ [][ w' = w /\ h' = h /\ Len(canvas') = Len(canvas) ]_vars
    /\ [](dpc \in {"loop", "done"} =>
            /\ Len(data) = w * h
            /\ Len(canvas) = w * h
            /\ \A i \in 1..(w * h) : data[i][4] = input[i][4] /\ canvas[i][4] = input[i][4])

C19_Witness ==
    /\ DitherDone
    /\ \E i \in 1..Len(canvas) : canvas[i][4] = 128 /\ Rgb(canvas[i]) # Rgb(input[i])

----------------------------------------------------------------------------
(* nearestColor, checked under SpecNearest *)

Abs(v) == IF v < 0 THEN -v ELSE v

\* The squared distance of c (in units of 1/Scale) to palette entry i as the
\* digits <<hi, mid, lo>> of hi * 2^20 + mid * 2^10 + lo, each channel's
\* difference d = a * 2^10 + b squared as a^2 * 2^20 + 2ab * 2^10 + b^2.
SquaredDistance(c, i) ==
    LET d(k) == Abs(c[k] - palette[i][k] * Scale)
        a(k) == d(k) \div 1024
        b(k) == d(k) % 1024
        hi == a(1) * a(1) + a(2) * a(2) + a(3) * a(3)
        mid == 2 * (a(1) * b(1) + a(2) * b(2) + a(3) * b(3))
        lo == b(1) * b(1) + b(2) * b(2) + b(3) * b(3)
        mid2 == mid + lo \div 1024
    IN  << hi + mid2 \div 1024, mid2 % 1024, lo % 1024 >>

Smaller(p, q) ==
    \/ p[1] < q[1]
    \/ p[1] = q[1] /\ p[2] < q[2]
    \/ p[1] = q[1] /\ p[2] = q[2] /\ p[3] < q[3]

\* C13: the entry nearestColor returns has the least squared Euclidean
\* distance to the triple over the palette, and every entry declared before
\* it is strictly farther.
C13_NearestIsFirstMinimum ==
    nearest # <<>> =>
        \E i \in 1..Len(palette) :
            /\ nearest = palette[i]
            /\ \A j \in 1..Len(palette) :
                  ~Smaller(SquaredDistance(probe, j), SquaredDistance(probe, i))
            /\ \A j \in 1..(i - 1) :
                  Smaller(SquaredDistance(probe, i), SquaredDistance(probe, j))

\* a later entry is exactly as near as the one returned
C13_Witness ==
    /\ nearest # <<>>
    /\ \E i \in 1..Len(palette) : \E j \in (i + 1)..Len(palette) :
          /\ nearest = palette[i]
          /\ SquaredDistance(probe, j) = SquaredDistance(probe, i)
          /\ probe \in HalfwayTriples

----------------------------------------------------------------------------
(* The routes, checked under SpecHttp *)

Answered == response # <<>>

\* C15: when render_image fails, sim_render answers 500, has called
\* render_image once and nothing after it, and sends no image; the answers
\* 400 and 404 are given only before render_image is called.
C15_RenderFailureIs500Once ==
    (Answered /\ request.route = "/sim_render") =>
        /\ effects.failed = "render" =>
              /\ response.status = 500
              /\ response.body = "none"
              /\ effects.render = 1
              /\ effects.dither = 0
        /\ response.status \in {400, 404} => effects.render = 0
        /\ effects.render <= 1

C15_Witness ==
    /\ Answered
    /\ request.route = "/sim_render"
    /\ effects.failed = "render"
    /\ response.status = 500
    /\ effects.render = 1

\* the configuration has a threshold that is not a finite number
InvalidConfiguration == cfgThreshold = NonFinite

\* C14: under an invalid configuration the work is refused before it
\* starts: no request is answered with a rendered and dithered image.
C14_InvalidConfigurationDoesNoWork ==
    (InvalidConfiguration /\ Answered) => response.body # "png"

----------------------------------------------------------------------------
(* Two conversions, checked under SpecPair *)

\* one call on its own after k pixels of a cw x ch bitmap
RECURSIVE AloneAfter(_, _, _, _)
AloneAfter(cw, ch, bitmap, k) ==
    IF k = 0
    THEN [data |-> bitmap, err |-> ZeroRow(cw), nextErr |-> ZeroRow(cw),
          x |-> 0, y |-> 0, pc |-> "loop"]
    ELSE PixelStep(cw, ch, AloneAfter(cw, ch, bitmap, k - 1))

\* the pixels call i has handled
PixelsDone(i) == conv[i].y * conv[i].w + conv[i].x

Started(i) == conv[i].pc \in {"loop", "done"}

\* C20: each call has rows of its own, zeroed and as wide as a row of the
\* bitmap, and whatever steps the other call takes in between, its data, its
\* rows and in the end its output are those of the call running alone.
C20_InterleavedEqualsAlone ==
    /\ \A i \in 1..2 : Started(i) =>
          /\ conv[i].rows \in 1..Len(heap)
          /\ Len(heap[conv[i].rows].err) = conv[i].w
          /\ Len(heap[conv[i].rows].nextErr) = conv[i].w
          /\ CallState(i) = AloneAfter(conv[i].w, conv[i].h, conv[i].input, PixelsDone(i))
    /\ (Started(1) /\ Started(2)) => conv[1].rows # conv[2].rows

\* both calls are in the middle of a bitmap, each with error pending
C20_Witness ==
    /\ \A i \in 1..2 :
          /\ conv[i].pc = "loop"
          /\ PixelsDone(i) \in 1..(conv[i].w * conv[i].h - 1)
          /\ ~AllZero(heap[conv[i].rows].err) \/ ~AllZero(heap[conv[i].rows].nextErr)
    /\ conv[1].input # conv[2].input
    /\ heap[conv[1].rows] # heap[conv[2].rows]

----------------------------------------------------------------------------
(* The threshold, checked under SpecPick *)

\* cfg.MEMORY_THRESHOLD as configured, the default when it is not set
ConfiguredThreshold ==
    IF cfgThreshold = NoValue THEN DefaultThreshold ELSE cfgThreshold[1]

\* C21: the threshold a pick compares scores with is the configured value,
\* 0 included, and the default only when none is configured: a returned
\* record scored above the configured value is not a fallback result.
C21_ThresholdIsConfiguredValue ==
    PickDone =>
        /\ THRESHOLD = ConfiguredThreshold
        /\ (Found(picked) /\ ScoreAbove(picked.photo, ConfiguredThreshold)) =>
              ~picked.fallbackNoThreshold

----------------------------------------------------------------------------
(* Rerolls from a selected photo, checked under Spec *)

\* a reroll has run to its end
RerollCompleted == pc = "idle" /\ Found(chosen)

\* C23: when the page was opened on a photo, currentDate stays that photo's
\* date through every reroll, the current photo and every pick are records of
\* that date, no reroll ends in the message for an empty window, and once a
\* reroll has completed the current photo is scored above the threshold
\* whenever a record of that date is.
C23_RerollStaysOnInitialDate ==
    findSelectedPhoto # NoPhoto =>
        /\ currentDate = findSelectedPhoto.date
        /\ currentPhoto \in PhotosOn(currentDate)
        /\ Found(chosen) =>
              /\ chosen.dateUsed = currentDate
              /\ chosen.photo \in PhotosOn(currentDate)
        /\ statusLine \notin {MsgNoPhotoInWindow, MsgOpenFromReview}
        /\ (RerollCompleted /\ \E p \in PhotosOn(currentDate) : ScoreAbove(p, THRESHOLD)) =>
              ScoreAbove(currentPhoto, THRESHOLD)

\* a reroll has replaced an initial photo below the threshold by one above it
C23_Witness ==
    /\ findSelectedPhoto # NoPhoto
    /\ RerollCompleted
    /\ currentPhoto # findSelectedPhoto
    /\ ~ScoreAbove(findSelectedPhoto, THRESHOLD)
    /\ ScoreAbove(currentPhoto, THRESHOLD)
    /\ currentPhoto.date = findSelectedPhoto.date


----------------------------------------------------------------------------
(* Path containment, checked under SpecHttp *)

\* the directory a route serves from
RouteBase == IF request.route = "/files" THEN BIN_OUTPUT_DIR ELSE IMAGE_DIR

\* the relative path a request hands to _safe_join
RouteRel == IF request.route = "/sim_render" THEN request.img.rest ELSE request.subpath

\* path is base or lies below it
Inside(path, base) ==
    Len(path) >= Len(base) /\ \A k \in 1..Len(base) : path[k] = base[k]

\* C22: _safe_join raises for every relative path that resolves outside
\* the base, a sibling directory named base + suffix included, and so a
\* file that /images, /sim_render or /files answers with lies inside the
\* base directory of the route.
C22_ServedFileIsInsideBase ==
    (Answered /\ request.route \in {"/images", "/sim_render", "/files"}) =>
        /\ ~_safe_join(RouteBase, RouteRel).raised =>
              Inside(_safe_join(RouteBase, RouteRel).path, RouteBase)
        /\ response.body \in {"file", "png"} => Inside(effects.served, RouteBase)

----------------------------------------------------------------------------
(* The device routes, checked under SpecHttp *)

\* the key and, for photo_<idx>.bin, the index are the accepted ones
DeviceRequestAccepted ==
    /\ request.key = DOWNLOAD_KEY
    /\ request.route = "/static/photo" =>
          (0 <= request.idx /\ request.idx < DAILY_PHOTO_QUANTITY)

\* C24: a device route answers with a file only for the configured key
\* and, for photo_<idx>.bin, an index from 0 up to but not including
\* DAILY_PHOTO_QUANTITY, which is at least 1; any other request to these
\* routes gets 404 with nothing touched, whatever ENABLE_REVIEW_WEBUI is.
C24_DeviceRoutesNeedKeyAndIndex ==
    /\ DAILY_PHOTO_QUANTITY >= 1
    /\ (Answered /\ request.route \in DeviceRoutes) =>
          /\ response.body = "file" => DeviceRequestAccepted
          /\ ~DeviceRequestAccepted =>
                /\ response.status = 404
                /\ response.body = "none"
                /\ effects = NoEffects
          /\ effects.served # <<>> => Inside(effects.served, BIN_OUTPUT_DIR)

C24_Witness ==
    /\ Answered
    /\ ~ENABLE_REVIEW_WEBUI
    /\ request.route = "/static/photo"
    /\ request.idx = DAILY_PHOTO_QUANTITY - 1
    /\ request.idx > 0
    /\ response.body = "file"
    /\ effects.served = BIN_OUTPUT_DIR \o << PhotoBin(request.idx) >>

----------------------------------------------------------------------------
(* The review interface switched off, checked under SpecHttp *)

\* C25: with ENABLE_REVIEW_WEBUI false, /review, /sim, /images,
\* /sim_render and /files answer 404 with no database read, file access
\* or render made, / answers 200 with plain text and no redirect, and a
\* file is served by the device routes only.
C25_DisabledWebuiIs404 ==
    (Answered /\ ~ENABLE_REVIEW_WEBUI) =>
        /\ request.route \in WebuiRoutes =>
              /\ response.status = 404
              /\ effects = NoEffects
        /\ request.route = "/" =>
              /\ response.status = 200
              /\ response.body = "text"
        /\ response.body \in {"file", "png", "html", "listing"} =>
              request.route \in DeviceRoutes

C25_Witness ==
    /\ Answered
    /\ ~ENABLE_REVIEW_WEBUI
    /\ request.route = "/files"
    /\ request.subpath.names = << <<"latest.bin">> >>
    /\ response.status = 404
    /\ effects = NoEffects

============================================================================
